---------------------------- MODULE Spec2Model ----------------------------
(***************************************************************************)
(* A model of the study-assistant backend: the assessment cache            *)
(* (assessment_service.generate_assessment), the progress tracker          *)
(* (assessment_service.submit_assessment_result and friends) and the       *)
(* roadmap store (roadmap_service).                                        *)
(*                                                                         *)
(* Files are modelled by the JSON value they hold (json.dump followed by   *)
(* json.load preserves every value the services write: string keys,       *)
(* integers, booleans, strings, null, lists and IEEE doubles) together    *)
(* with an exists flag (os.path.exists).  Text is modelled as a sequence   *)
(* of one-character strings, so that strip, startswith and slicing are the *)
(* operations the code performs.                                           *)
(***************************************************************************)
EXTENDS Integers, Sequences, FiniteSets, TLC

VARIABLES
    uploads,       \* UPLOAD_ROOT/<session_id>, per session: the files in it, if it exists
    cache,         \* ASSESSMENT_DIR/<session_id>_lvl<level>.json, per (session, level)
    llmCalls,      \* number of llm.invoke calls made so far (assessment_service)
    progressFile,  \* PROGRESS_FILE: the mapping session id -> record, if it exists
    roadmapFiles,  \* ROADMAPS_DIR/<id>.json, per roadmap id
    genCalls,      \* number of client.models.generate_content calls (roadmap_service)
    workers,       \* per thread: idle, a request between its load and its save, or answered
    call,          \* the last handler call: its name and arguments
    ret            \* what that call returned

vars == <<uploads, cache, llmCalls, progressFile, roadmapFiles, genCalls,
          workers, call, ret>>

---------------------------------------------------------------------------
(* Bounds of the model *)

\* submissions stored over all sessions (the history grows without bound)
MaxSubmits == 2

\* distance between the sampled outcomes of random.randint(a, b)
XpStep == 50

\* calls of llm.invoke (every uncached request with documents makes one)
MaxLlmCalls == 2

\* roadmaps generated (every one is a new file)
MaxRoadmaps == 1

\* calls of client.models.generate_content (roadmaps and week contents)
MaxGenCalls == 2

---------------------------------------------------------------------------
(* Values *)

None == "None"

Sessions == {"s1", "s2"}

\* levels a caller may submit: the three Bloom tiers and one that is none
LevelInputs == {1, 2, 3, 4}

\* levels a caller requests an assessment for: a tier, and one that is none
GenLevels == {1, 4}

Questions == {"q1", "q2"}

Comments == {"note"}

\* the mistakes argument: None (the default), or a list of dicts
NoneList == [is_none |-> TRUE, list |-> <<>>]

List(l) == [is_none |-> FALSE, list |-> l]

\* a mistake as the caller submits it (a dict; .get gives None for a missing key)
Mistake(q, a) == [question |-> q, user_answer |-> a]

Submission(level, score, mistakes) ==
    [level |-> level, score |-> score, max_score |-> 10, mistakes |-> mistakes]

\* the submissions a caller makes: at every level the pass threshold and the
\* score below it; a mistake list that repeats a question, and one that
\* repeats a question of the other list and brings a new one
Submissions ==
    { Submission(1, 7, List(<<Mistake("q1", "a"), Mistake("q1", "b")>>)),
      Submission(1, 8, NoneList),
      Submission(2, 6, List(<<>>)),
      Submission(2, 7, List(<<Mistake("q1", "b"), Mistake("q2", "a")>>)),
      Submission(3, 0, NoneList),
      Submission(3, 1, NoneList),
      Submission(4, 8, NoneList) }

---------------------------------------------------------------------------
(* Text: a string is the sequence of its characters *)

Whitespace == {" ", "\n", "\t", "\r"}

RECURSIVE LStrip(_)
LStrip(t) == IF t # <<>> /\ Head(t) \in Whitespace THEN LStrip(Tail(t)) ELSE t

RECURSIVE RStrip(_)
RStrip(t) ==
    IF t # <<>> /\ t[Len(t)] \in Whitespace THEN RStrip(SubSeq(t, 1, Len(t) - 1))
    ELSE t

\* str.strip()
Strip(t) == RStrip(LStrip(t))

\* str.startswith(prefix)
StartsWith(t, prefix) ==
    Len(t) >= Len(prefix) /\ SubSeq(t, 1, Len(prefix)) = prefix

\* t[i:-j], for j > 0
Slice(t, i, j) == SubSeq(t, i + 1, Len(t) - j)

\* the backquote character (a TLA+ string cannot hold one)
Backquote == "bq"

\* the markdown code fence, three backquotes
Fence == <<Backquote, Backquote, Backquote>>

FenceJson == Fence \o <<"j", "s", "o", "n">>

Digits == {"1", "2"}

\* json.loads on the texts of the model, whose only JSON documents are the
\* one-element arrays [1] and [2], with white space around them allowed
json_loads(t) ==
    LET b == Strip(t)
    IN IF Len(b) = 3 /\ b[1] = "[" /\ b[2] \in Digits /\ b[3] = "]"
       THEN [ok |-> TRUE, value |-> <<b[2]>>]
       ELSE [ok |-> FALSE, value |-> <<>>]

---------------------------------------------------------------------------
(* Floating point: a Python float is an IEEE 754 double.  A positive double *)
(* is modelled by its 53-bit significand and its exponent e.  The          *)
(* significand is held in three limbs m = <<m1, m2, m3>>, of 17, 18 and 18 *)
(* bits (m1 carries the leading 1), so that every intermediate result     *)
(* fits a 32-bit integer: the double's value is                            *)
(*     (m1 * 2^36 + m2 * 2^18 + m3) * 2^e.                                 *)
(* The numbers of the model are far from the subnormal and overflow range. *)

RECURSIVE Pow2(_)
Pow2(n) == IF n = 0 THEN 1 ELSE 2 * Pow2(n - 1)

\* the number of binary digits of a natural number
RECURSIVE BitLen(_)
BitLen(n) == IF n = 0 THEN 0 ELSE 1 + BitLen(n \div 2)

\* round to nearest, ties to even: the significand m with a guard bit and a
\* sticky bit below its last bit
RoundNearestEven(m, e, guard, sticky) ==
    IF guard = 1 /\ (sticky \/ m[3] % 2 = 1)
    THEN IF m[3] + 1 < Pow2(18) THEN [m |-> <<m[1], m[2], m[3] + 1>>, e |-> e]
         ELSE IF m[2] + 1 < Pow2(18) THEN [m |-> <<m[1], m[2] + 1, 0>>, e |-> e]
         ELSE IF m[1] + 1 < Pow2(17) THEN [m |-> <<m[1] + 1, 0, 0>>, e |-> e]
         ELSE [m |-> <<Pow2(16), 0, 0>>, e |-> e + 1]
    ELSE [m |-> m, e |-> e]

\* a / b scaled by a power of two into [1, 2): [a, b, e] with
\* (a / b) * 2^e the quotient asked for
RECURSIVE Normalize(_, _, _)
Normalize(a, b, e) ==
    IF a < b THEN Normalize(2 * a, b, e - 1)
    ELSE IF a >= 2 * b THEN Normalize(a, 2 * b, e + 1)
    ELSE [a |-> a, b |-> b, e |-> e]

\* int / int (true division of positive integers below 2^12): the double
\* nearest to a / b, by long division, 16 + 18 + 18 bits after the leading 1
TrueDiv(a, b) ==
    LET n == Normalize(a, b, 0)
        r0 == n.a - n.b
        m1 == Pow2(16) + (r0 * Pow2(16)) \div n.b
        r1 == (r0 * Pow2(16)) % n.b
        m2 == (r1 * Pow2(18)) \div n.b
        r2 == (r1 * Pow2(18)) % n.b
        m3 == (r2 * Pow2(18)) \div n.b
        r3 == (r2 * Pow2(18)) % n.b
        guard == IF 2 * r3 >= n.b THEN 1 ELSE 0
    IN RoundNearestEven(<<m1, m2, m3>>, n.e - 52, guard, 2 * r3 - guard * n.b # 0)

\* float * int, for a positive double x and an integer 0 < k < 2^7: the
\* double nearest to the product
TimesInt(x, k) ==
    LET t3 == x.m[3] * k
        t2 == x.m[2] * k + t3 \div Pow2(18)
        t1 == x.m[1] * k + t2 \div Pow2(18)
        p2 == t2 % Pow2(18)
        p3 == t3 % Pow2(18)
        s == BitLen(t1) - 17
    IN IF s = 0 THEN [m |-> <<t1, p2, p3>>, e |-> x.e]
       ELSE LET m1 == t1 \div Pow2(s)
                m2 == (t1 % Pow2(s)) * Pow2(18 - s) + p2 \div Pow2(s)
                m3 == (p2 % Pow2(s)) * Pow2(18 - s) + p3 \div Pow2(s)
                dropped == p3 % Pow2(s)
            IN RoundNearestEven(<<m1, m2, m3>>, x.e + s,
                                dropped \div Pow2(s - 1),
                                dropped % Pow2(s - 1) # 0)

---------------------------------------------------------------------------
(* backend_upload_endpoint: the upload folder *)

ALLOWED_EXTENSIONS == {".pdf"}

\* str.lower() on the extensions of the model
Lower(ext) == IF ext = ".PDF" THEN ".pdf" ELSE ext

File(name, ext) == [name |-> name, ext |-> ext]

\* the files a client uploads: a PDF with text, a PDF that partition_pdf cannot
\* read, and a file that is no PDF
FileInputs == {File("a", ".pdf"), File("scan", ".PDF"), File("notes", ".txt")}

\* is_allowed_file(filename)
is_allowed_file(f) == \E ext \in ALLOWED_EXTENSIONS : Lower(f.ext) = ext

\* UPLOAD_ROOT/<session_id> before the first upload
NoDir == [exists |-> FALSE, files |-> {}]

\* upload_files(files, session_id): the folder is created, the allowed files
\* are saved into it, the others are rejected
upload_files(files, session_id) ==
    LET saved == { f \in files : is_allowed_file(f) }
        rejected == files \ saved
    IN /\ IF files = {} THEN UNCHANGED uploads
          ELSE uploads' = [uploads EXCEPT ![session_id] =
                    [exists |-> TRUE, files |-> @.files \cup saved]]
       /\ ret' = IF files = {} THEN [status |-> 400, detail |-> "No files uploaded"]
                 ELSE IF saved = {}
                 THEN [status |-> 400, detail |-> "No valid PDF files were uploaded"]
                 ELSE [status |-> 200, session_id |-> session_id,
                       uploaded_files |-> saved, rejected_files |-> rejected]
       /\ call' = [op |-> "upload_files", session_id |-> session_id, files |-> files]
       /\ UNCHANGED <<cache, llmCalls, progressFile, roadmapFiles, genCalls, workers>>

---------------------------------------------------------------------------
(* assessment_service: assessment generation and its cache *)

\* full_text[:50000]
MaxContext == 50000

\* partition_pdf(filename, strategy="fast"): the number of characters it
\* extracts, or an exception
partition_pdf(f) ==
    IF f.name = "a" THEN [raised |-> FALSE, len |-> 60000]
    ELSE [raised |-> TRUE, len |-> 0]

RECURSIVE TextLen(_)
TextLen(files) ==
    IF files = {} THEN 0
    ELSE LET f == CHOOSE x \in files : TRUE
             e == partition_pdf(f)
         IN (IF Lower(f.ext) = ".pdf" /\ ~e.raised THEN e.len ELSE 0)
            + TextLen(files \ {f})

\* a variant: a PDF that cannot be read leaves a line with its name
get_session_text_named(dir) ==
    IF ~dir.exists THEN 0
    ELSE LET n == TextLen(dir.files) + Cardinality(dir.files)
         IN IF n > MaxContext THEN MaxContext ELSE n

\* get_session_text(session_id), as the length of the text it returns
get_session_text(dir) ==
    IF ~dir.exists THEN 0
    ELSE IF TextLen(dir.files) > MaxContext THEN MaxContext ELSE TextLen(dir.files)

\* get_assessment_prompt(level, context): the template of the level around
\* the context, or "" for a level that has none
get_assessment_prompt(level, context) ==
    IF level \in {1, 2, 3} THEN [template |-> level, context |-> context]
    ELSE [template |-> 0, context |-> 0]

Raised == [raised |-> TRUE, text |-> <<>>]

Response(text) == [raised |-> FALSE, text |-> text]

PlainReply == <<"[", "1", "]", "\n">>

FencedJsonReply == FenceJson \o <<"\n", "[", "2", "]", "\n">> \o Fence

FencedReply == Fence \o <<"\n", "[", "1", "]", "\n">> \o Fence

UnclosedReply == FenceJson \o <<"\n", "[", "2", "]">>

ProseReply == <<"S", "o", "r", "r", "y">>

\* llm.invoke(messages): an exception, or a response with some content
llm_invoke(prompt) ==
    { Raised, Response(PlainReply), Response(FencedJsonReply),
      Response(FencedReply), Response(UnclosedReply), Response(ProseReply) }

\* the "Clean Markdown" step
CleanMarkdown(content) ==
    IF StartsWith(content, FenceJson) THEN Slice(content, 7, 3)
    ELSE IF StartsWith(content, Fence) THEN Slice(content, 3, 3)
    ELSE content

\* the try block up to json.loads: the parsed questions, or the exception
ParseResponse(response) ==
    IF response.raised THEN [ok |-> FALSE, value |-> <<>>]
    ELSE json_loads(CleanMarkdown(Strip(response.text)))

Assessment(level, questions) ==
    [level |-> level, timer_seconds |-> 600, questions |-> questions]

\* a cache file that does not exist
NoCache == [exists |-> FALSE, content |-> Assessment(0, <<>>)]

CacheFile(content) == [exists |-> TRUE, content |-> content]

CacheHit_never(entry) == FALSE

\* os.path.exists(cache_file)
CacheHit(entry) == entry.exists

CacheAfter_opened(entry, level, parsed) ==
    IF parsed.ok THEN CacheFile(Assessment(level, parsed.value))
    ELSE CacheFile(Assessment(level, <<>>))

\* the cache file after the try block: written when the response parsed
CacheAfter(entry, level, parsed) ==
    IF parsed.ok THEN CacheFile(Assessment(level, parsed.value)) ELSE entry

NotCalled == [called |-> FALSE, raised |-> FALSE, text |-> <<>>]

Called(response) ==
    [called |-> TRUE, raised |-> response.raised, text |-> response.text]

GenerateCall(session_id, level, llm) ==
    [op |-> "generate_assessment", session_id |-> session_id, level |-> level,
     llm |-> llm]

\* generate_assessment(session_id, level)
generate_assessment(session_id, level) ==
    LET entry == cache[<<session_id, level>>]
        context == get_session_text(uploads[session_id])
    IN /\ IF CacheHit(entry)
          THEN /\ ret' = entry.content
               /\ call' = GenerateCall(session_id, level, NotCalled)
               /\ UNCHANGED <<cache, llmCalls>>
          ELSE IF context = 0
          THEN /\ ret' = [error |-> "No documents found for this session."]
               /\ call' = GenerateCall(session_id, level, NotCalled)
               /\ UNCHANGED <<cache, llmCalls>>
          ELSE /\ llmCalls < MaxLlmCalls
               /\ \E response \in llm_invoke(get_assessment_prompt(level, context)) :
                    LET parsed == ParseResponse(response)
                    IN /\ llmCalls' = llmCalls + 1
                       /\ cache' = [cache EXCEPT ![<<session_id, level>>] =
                                        CacheAfter(entry, level, parsed)]
                       /\ ret' = IF parsed.ok THEN Assessment(level, parsed.value)
                                 ELSE [error |-> "Failed to generate assessment."]
                       /\ call' = GenerateCall(session_id, level, Called(response))
       /\ UNCHANGED <<uploads, progressFile, roadmapFiles, genCalls, workers>>

---------------------------------------------------------------------------
(* assessment_service: the progress tracker *)

EmptyProgress == <<>>

\* PROGRESS_FILE before its first save
NoProgressFile == [exists |-> FALSE, data |-> EmptyProgress]

\* load_user_progress(): the file's mapping, or {} when there is no file
load_user_progress(file) == IF file.exists THEN file.data ELSE EmptyProgress

\* a variant: a save that keeps the sessions the writer did not load
save_merging(file, progress) ==
    [exists |-> TRUE,
     data |-> [s \in DOMAIN file.data \cup DOMAIN progress |->
                 IF s \in DOMAIN progress THEN progress[s] ELSE file.data[s]]]

\* save_user_progress(progress): the file is rewritten whole
save_user_progress(file, progress) == [exists |-> TRUE, data |-> progress]

\* str(os.path.getmtime(PROGRESS_FILE) if os.path.exists(PROGRESS_FILE) else 0)
Timestamp(file) == IF file.exists THEN "mtime" ELSE "0"

\* the record a session gets on its first submission
NewRecord == [xp |-> 0, unlocked_level |-> 1, history |-> <<>>, mistakes |-> <<>>]

\* random.randint(a, b), sampled: a, b and every XpStep-th value between
randint(a, b) == { x \in a..b : (x - a) % XpStep = 0 } \cup {b}

Passed_lenient(level, score) ==
    CASE level = 1 -> score >= 7
      [] level = 2 -> score >= 7
      [] level = 3 -> score > 0
      [] OTHER -> FALSE

\* the pass condition of the submitted level
Passed(level, score) ==
    CASE level = 1 -> score >= 8
      [] level = 2 -> score >= 7
      [] level = 3 -> score > 0
      [] OTHER -> FALSE

\* the values xp_gained may take
XpGained(level, score) ==
    IF ~Passed(level, score) THEN {0}
    ELSE CASE level = 1 -> randint(50, 100)
           [] level = 2 -> randint(100, 150)
           [] level = 3 -> randint(150, 200)

Unlocked_reset(level, score, unlocked) ==
    IF level = 1 /\ Passed(level, score) THEN 2
    ELSE IF level = 2 /\ Passed(level, score) THEN 3
    ELSE unlocked

\* the unlock effect of a submission on unlocked_level
Unlocked(level, score, unlocked) ==
    IF level = 1 /\ Passed(level, score) /\ unlocked < 2 THEN 2
    ELSE IF level = 2 /\ Passed(level, score) /\ unlocked < 3 THEN 3
    ELSE unlocked

Xp_overwrite(xp, level, score, xp_gained) ==
    IF Passed(level, score) THEN xp_gained ELSE xp

\* if passed: user_data["xp"] += xp_gained
Xp(xp, level, score, xp_gained) ==
    IF Passed(level, score) THEN xp + xp_gained ELSE xp

HasQuestion(stored, q) == \E i \in 1..Len(stored) : stored[i].question = q

StoredMistake(m, level, ts) ==
    [question |-> m.question, correct_answer |-> None, explanation |-> None,
     user_answer |-> m.user_answer, level |-> level, comments |-> "",
     timestamp |-> ts]

RECURSIVE AddMistakes_nodedup(_, _, _, _)
AddMistakes_nodedup(stored, mistakes, level, ts) ==
    IF mistakes = <<>> THEN stored
    ELSE AddMistakes_nodedup(
            IF Len(stored) > 0 /\ stored[Len(stored)].question = Head(mistakes).question
            THEN stored
            ELSE Append(stored, StoredMistake(Head(mistakes), level, ts)),
            Tail(mistakes), level, ts)

\* the loop over the submitted mistakes: one is stored unless its question is
\* already stored (the stored list grows inside the loop)
RECURSIVE AddMistakes(_, _, _, _)
AddMistakes(stored, mistakes, level, ts) ==
    IF mistakes = <<>> THEN stored
    ELSE AddMistakes(
            IF HasQuestion(stored, Head(mistakes).question) THEN stored
            ELSE Append(stored, StoredMistake(Head(mistakes), level, ts)),
            Tail(mistakes), level, ts)

SubmissionEvent(level, score, max_score, xp_gained, ts) ==
    [level |-> level, score |-> score, max_score |-> max_score,
     passed |-> Passed(level, score), xp_gained |-> xp_gained, timestamp |-> ts]

\* a variant: the event is recorded for passed submissions only
SubmitRecord_passonly(rec, level, score, max_score, mistakes, xp_gained, ts) ==
    [xp |-> Xp(rec.xp, level, score, xp_gained),
     unlocked_level |-> Unlocked(level, score, rec.unlocked_level),
     history |-> IF Passed(level, score)
                 THEN Append(rec.history,
                             SubmissionEvent(level, score, max_score, xp_gained, ts))
                 ELSE rec.history,
     mistakes |-> IF mistakes.is_none \/ mistakes.list = <<>> THEN rec.mistakes
                  ELSE AddMistakes(rec.mistakes, mistakes.list, level, ts)]

\* the session's record after the submission, from the record loaded
SubmitRecord(rec, level, score, max_score, mistakes, xp_gained, ts) ==
    [xp |-> Xp(rec.xp, level, score, xp_gained),
     unlocked_level |-> Unlocked(level, score, rec.unlocked_level),
     history |-> Append(rec.history,
                        SubmissionEvent(level, score, max_score, xp_gained, ts)),
     mistakes |-> IF mistakes.is_none \/ mistakes.list = <<>> THEN rec.mistakes
                  ELSE AddMistakes(rec.mistakes, mistakes.list, level, ts)]

\* a variant: the mapping saved holds the submitting session only
SubmitProgress_alone(progress, session_id, level, score, max_score, mistakes, xp_gained, ts) ==
    LET rec == IF session_id \in DOMAIN progress THEN progress[session_id]
               ELSE NewRecord
        new == SubmitRecord(rec, level, score, max_score, mistakes, xp_gained, ts)
    IN [s \in {session_id} |-> new]

\* the progress mapping after the submission, from the mapping loaded
SubmitProgress(progress, session_id, level, score, max_score, mistakes, xp_gained, ts) ==
    LET rec == IF session_id \in DOMAIN progress THEN progress[session_id]
               ELSE NewRecord
        new == SubmitRecord(rec, level, score, max_score, mistakes, xp_gained, ts)
    IN [s \in DOMAIN progress \cup {session_id} |->
            IF s = session_id THEN new ELSE progress[s]]

\* the summary submit_assessment_result returns
SubmitSummary(rec, level, score, xp_gained) ==
    [passed |-> Passed(level, score), xp_gained |-> xp_gained,
     new_total_xp |-> rec.xp, unlocked_level |-> rec.unlocked_level,
     score |-> score]

RECURSIVE SumLen(_, _)
SumLen(f, S) ==
    IF S = {} THEN 0
    ELSE LET s == CHOOSE x \in S : TRUE
         IN Len(f[s].history) + SumLen(f, S \ {s})

\* events stored over all sessions
TotalHistory(file) == SumLen(file.data, DOMAIN file.data)

\* submit_assessment_result(session_id, level, score, max_score, mistakes),
\* run from its load to its save with no other request in between
submit_assessment_result(session_id, level, score, max_score, mistakes) ==
    /\ TotalHistory(progressFile) < MaxSubmits
    /\ \E xp_gained \in XpGained(level, score) :
         LET progress == SubmitProgress(load_user_progress(progressFile), session_id,
                                        level, score, max_score, mistakes, xp_gained,
                                        Timestamp(progressFile))
         IN /\ progressFile' = save_user_progress(progressFile, progress)
            /\ ret' = SubmitSummary(progress[session_id], level, score, xp_gained)
    /\ call' = [op |-> "submit_assessment_result", session_id |-> session_id,
                level |-> level, score |-> score, max_score |-> max_score,
                mistakes |-> mistakes]
    /\ UNCHANGED <<uploads, cache, llmCalls, roadmapFiles, genCalls, workers>>

\* a variant: the comment is written to every mistake of the session
SetComment_all(stored, question_text, comment) ==
    [i \in 1..Len(stored) |-> [stored[i] EXCEPT !.comments = comment]]

\* the loop of update_mistake_comment: the first mistake with the question
\* gets the comment
SetComment(stored, question_text, comment) ==
    [i \in 1..Len(stored) |->
        IF stored[i].question = question_text
           /\ \A j \in 1..(i - 1) : stored[j].question # question_text
        THEN [stored[i] EXCEPT !.comments = comment]
        ELSE stored[i]]

\* update_mistake_comment(session_id, question_text, comment)
update_mistake_comment(session_id, question_text, comment) ==
    LET progress == load_user_progress(progressFile)
        found == /\ session_id \in DOMAIN progress
                 /\ HasQuestion(progress[session_id].mistakes, question_text)
    IN /\ IF found
          THEN progressFile' = save_user_progress(progressFile,
                  [progress EXCEPT ![session_id].mistakes =
                      SetComment(@, question_text, comment)])
          ELSE UNCHANGED progressFile
       /\ ret' = [found |-> found]
       /\ call' = [op |-> "update_mistake_comment", session_id |-> session_id,
                   question_text |-> question_text, comment |-> comment]
       /\ UNCHANGED <<uploads, cache, llmCalls, roadmapFiles, genCalls, workers>>

---------------------------------------------------------------------------
(* roadmap_service: the roadmap store *)

\* a day with its deep content, as the model writes it for week 1
FullDay(n) ==
    [day_number |-> n, topic |-> "topic", learning_objectives |-> <<"objective">>,
     youtube_video_title |-> "video", youtube_video_url |-> "url",
     reference_content |-> "tutorial", questions |-> <<"question">>]

\* a day of a later week: the title only (it has no youtube_video_title key)
PlaceholderDay(n) ==
    [day_number |-> n, topic |-> "topic", learning_objectives |-> <<>>,
     youtube_video_title |-> None, youtube_video_url |-> "",
     reference_content |-> "CONTENT_NOT_GENERATED", questions |-> <<>>]

Week(n, days) == [week_number |-> n, goal |-> "goal", days |-> days]

\* the roadmaps the model writes: a course of 3 days, and a course of 8 days
\* in two weeks
ShortCourse ==
    [title |-> "short", description |-> "description", total_days |-> 3,
     weeks |-> <<Week(1, <<FullDay(1), FullDay(2), FullDay(3)>>)>>]

LongCourse ==
    [title |-> "long", description |-> "description", total_days |-> 8,
     weeks |-> <<Week(1, [n \in 1..7 |-> FullDay(n)]), Week(2, <<PlaceholderDay(8)>>)>>]

ShortCourseReply == <<"{", "1", "}">>

LongCourseReply == FenceJson \o <<"\n", "{", "2", "}", "\n">> \o Fence

\* str.endswith(suffix)
EndsWith(t, suffix) ==
    Len(t) >= Len(suffix)
    /\ SubSeq(t, Len(t) - Len(suffix) + 1, Len(t)) = suffix

\* the clean-up of generate_roadmap: strip, cut the fences, strip
CleanRoadmapText(text) ==
    LET t0 == Strip(text)
        t1 == IF StartsWith(t0, FenceJson) THEN SubSeq(t0, 8, Len(t0)) ELSE t0
        t2 == IF EndsWith(t1, Fence) THEN SubSeq(t1, 1, Len(t1) - 3) ELSE t1
    IN Strip(t2)

\* the clean-up of generate_week_content: strip, cut the fences
CleanWeekText(text) ==
    LET t0 == Strip(text)
        t1 == IF StartsWith(t0, FenceJson) THEN SubSeq(t0, 8, Len(t0)) ELSE t0
    IN IF EndsWith(t1, Fence) THEN SubSeq(t1, 1, Len(t1) - 3) ELSE t1

\* a variant: a reply that is no roadmap is taken for the short course
LoadRoadmap_default(text) ==
    LET b == Strip(text)
    IN IF b = <<"{", "2", "}">> THEN [ok |-> TRUE, value |-> LongCourse]
       ELSE [ok |-> TRUE, value |-> ShortCourse]

\* json.loads(repair_json(text)) on the roadmap replies of the model: the two
\* courses are the only documents; any other text makes it raise
LoadRoadmap(text) ==
    LET b == Strip(text)
    IN IF b = <<"{", "1", "}">> THEN [ok |-> TRUE, value |-> ShortCourse]
       ELSE IF b = <<"{", "2", "}">> THEN [ok |-> TRUE, value |-> LongCourse]
       ELSE [ok |-> FALSE, value |-> ShortCourse]

\* client.models.generate_content(...) for a roadmap: an exception, or text
generate_content_roadmap ==
    { Raised, Response(ShortCourseReply), Response(LongCourseReply),
      Response(ProseReply) }

\* a number of a JSON file: an int, or a float held as a double
IntNum(n) == [is_int |-> TRUE, n |-> n, m |-> <<0, 0, 0>>, e |-> 0]

FloatNum(x) == [is_int |-> FALSE, n |-> 0, m |-> x.m, e |-> x.e]

\* the key "completed_days": absent from a new roadmap, then a list
NoCompletedDays == [present |-> FALSE, days |-> <<>>]

CompletedDays(days) == [present |-> TRUE, days |-> days]

\* the metadata generate_roadmap adds to the parsed roadmap
NewRoadmap(roadmap_data, roadmap_id, session_id) ==
    [id |-> roadmap_id, session_id |-> session_id, created_at |-> "now",
     status |-> "active", days_completed |-> 0, progress_percentage |-> IntNum(0),
     completed_days |-> NoCompletedDays,
     title |-> roadmap_data.title, description |-> roadmap_data.description,
     total_days |-> roadmap_data.total_days, weeks |-> roadmap_data.weeks]

\* save_roadmap(roadmap): the file of the roadmap's id is rewritten whole
save_roadmap(files, roadmap) ==
    [i \in DOMAIN files \cup {roadmap.id} |->
        IF i = roadmap.id THEN roadmap ELSE files[i]]

\* get_roadmap(roadmap_id) finds a file
HasRoadmap(files, roadmap_id) == roadmap_id \in DOMAIN files

\* str(uuid.uuid4()): an id no roadmap has
NewId(files) == Cardinality(DOMAIN files) + 1

\* generate_roadmap(prompt, session_id)
generate_roadmap(prompt, session_id) ==
    /\ genCalls < MaxGenCalls
    /\ Cardinality(DOMAIN roadmapFiles) < MaxRoadmaps
    /\ \E response \in generate_content_roadmap :
         LET parsed == IF response.raised THEN [ok |-> FALSE, value |-> ShortCourse]
                       ELSE LoadRoadmap(CleanRoadmapText(response.text))
             roadmap == NewRoadmap(parsed.value, NewId(roadmapFiles), session_id)
         IN /\ genCalls' = genCalls + 1
            /\ roadmapFiles' = IF parsed.ok THEN save_roadmap(roadmapFiles, roadmap)
                               ELSE roadmapFiles
            /\ ret' = IF parsed.ok THEN roadmap
                      ELSE IF response.raised THEN [error |-> "exception"]
                      ELSE [error |-> "Failed to parse AI response"]
            /\ call' = [op |-> "generate_roadmap", prompt |-> prompt,
                        session_id |-> session_id, llm |-> Called(response)]
    /\ UNCHANGED <<uploads, cache, llmCalls, progressFile, workers>>

\* what the model returns for a day: the keys it gives (a missing day_number
\* is 0, which no day has)
DayData(n, text) == [day_number |-> n, reference_content |-> text]

\* the day lists the model returns for a week: one that answers day 8, one
\* with no day number, and an empty one
LoadDays(text) ==
    LET b == Strip(text)
    IN IF b = <<"[", "8", "]">> THEN [ok |-> TRUE, value |-> <<DayData(8, "filled")>>]
       ELSE IF b = <<"[", "?", "]">> THEN [ok |-> TRUE, value |-> <<DayData(0, "filled")>>]
       ELSE IF b = <<"[", "]">> THEN [ok |-> TRUE, value |-> <<>>]
       ELSE [ok |-> FALSE, value |-> <<>>]

\* client.models.generate_content(...) for a week: an exception, or text
generate_content_week ==
    { Raised, Response(<<"[", "8", "]">>),
      Response(Fence \o <<"\n", "[", "?", "]", "\n">> \o Fence),
      Response(<<"[", "]">>), Response(ProseReply) }

FindWeek_first(weeks, week_number) ==
    IF \E i \in 1..Len(weeks) : weeks[i].week_number = week_number
    THEN CHOOSE i \in 1..Len(weeks) :
            /\ weeks[i].week_number = week_number
            /\ \A j \in 1..(i - 1) : weeks[j].week_number # week_number
    ELSE IF Len(weeks) > 0 THEN 1 ELSE 0

\* next((w for w in roadmap["weeks"] if w["week_number"] == week_number), None):
\* the index of the first such week, 0 for None
FindWeek(weeks, week_number) ==
    IF \E i \in 1..Len(weeks) : weeks[i].week_number = week_number
    THEN CHOOSE i \in 1..Len(weeks) :
            /\ weeks[i].week_number = week_number
            /\ \A j \in 1..(i - 1) : weeks[j].week_number # week_number
    ELSE 0

\* the data for the i-th day of the week: the first with the day's number,
\* else the i-th of the list, else None (0)
FindDayData(new_days_data, day, i) ==
    IF \E k \in 1..Len(new_days_data) : new_days_data[k].day_number = day.day_number
    THEN CHOOSE k \in 1..Len(new_days_data) :
            /\ new_days_data[k].day_number = day.day_number
            /\ \A j \in 1..(k - 1) : new_days_data[j].day_number # day.day_number
    ELSE IF i <= Len(new_days_data) THEN i ELSE 0

\* day.update({...}): the five content keys, with the defaults of .get
UpdateDay(day, new_day_data) ==
    [day EXCEPT !.learning_objectives = <<>>,
                !.youtube_video_title = "",
                !.youtube_video_url = "",
                !.reference_content = new_day_data.reference_content,
                !.questions = <<>>]

\* the loop over the days of the target week
FillDays(days, new_days_data) ==
    [i \in 1..Len(days) |->
        LET k == FindDayData(new_days_data, days[i], i)
        IN IF k = 0 THEN days[i] ELSE UpdateDay(days[i], new_days_data[k])]

\* generate_week_content(roadmap_id, week_number)
generate_week_content(roadmap_id, week_number) ==
    /\ IF ~HasRoadmap(roadmapFiles, roadmap_id)
       THEN /\ ret' = [error |-> "Roadmap not found"]
            /\ call' = [op |-> "generate_week_content", roadmap_id |-> roadmap_id,
                        week_number |-> week_number, llm |-> NotCalled]
            /\ UNCHANGED <<roadmapFiles, genCalls>>
       ELSE LET roadmap == roadmapFiles[roadmap_id]
                w == FindWeek(roadmap.weeks, week_number)
            IN IF w = 0
               THEN /\ ret' = [error |-> "Week not found in roadmap outline",
                               week_number |-> week_number]
                    /\ call' = [op |-> "generate_week_content",
                                roadmap_id |-> roadmap_id,
                                week_number |-> week_number, llm |-> NotCalled]
                    /\ UNCHANGED <<roadmapFiles, genCalls>>
               ELSE /\ genCalls < MaxGenCalls
                    /\ \E response \in generate_content_week :
                         LET parsed == IF response.raised
                                       THEN [ok |-> FALSE, value |-> <<>>]
                                       ELSE LoadDays(CleanWeekText(response.text))
                             filled == [roadmap EXCEPT !.weeks[w].days =
                                           FillDays(@, parsed.value)]
                         IN /\ genCalls' = genCalls + 1
                            /\ roadmapFiles' =
                                 IF parsed.ok THEN save_roadmap(roadmapFiles, filled)
                                 ELSE roadmapFiles
                            /\ ret' = IF parsed.ok
                                      THEN [status |-> "success",
                                            week_number |-> week_number]
                                      ELSE IF response.raised
                                      THEN [error |-> "exception"]
                                      ELSE [error |->
                                        "Failed to parse AI response for week content"]
                            /\ call' = [op |-> "generate_week_content",
                                        roadmap_id |-> roadmap_id,
                                        week_number |-> week_number,
                                        llm |-> Called(response)]
    /\ UNCHANGED <<uploads, cache, llmCalls, progressFile, workers>>

InList(days, day_number) == \E i \in 1..Len(days) : days[i] = day_number

AlreadyCompleted_never(completed_days, day_number) == FALSE

\* not (day_number not in roadmap["completed_days"])
AlreadyCompleted(completed_days, day_number) ==
    InList(completed_days.days, day_number)

Percentage_stale(days_completed, total_days) ==
    IF days_completed = 1 THEN IntNum(0)
    ELSE FloatNum(TimesInt(TrueDiv(days_completed - 1, total_days), 100))

\* (roadmap["days_completed"] / roadmap["total_days"]) * 100
Percentage(days_completed, total_days) ==
    FloatNum(TimesInt(TrueDiv(days_completed, total_days), 100))

\* the roadmap after a day that was not completed yet is marked
MarkDay(roadmap, day_number) ==
    LET days == Append(roadmap.completed_days.days, day_number)
    IN [roadmap EXCEPT !.completed_days = CompletedDays(days),
                       !.days_completed = Len(days),
                       !.progress_percentage = Percentage(Len(days), roadmap.total_days)]

\* update_progress(roadmap_id, day_number), run from its load to its save
\* with no other request in between
update_progress(roadmap_id, day_number) ==
    /\ IF ~HasRoadmap(roadmapFiles, roadmap_id)
       THEN /\ ret' = [none |-> TRUE]
            /\ UNCHANGED roadmapFiles
       ELSE LET roadmap == roadmapFiles[roadmap_id]
            IN IF AlreadyCompleted(roadmap.completed_days, day_number)
               THEN /\ ret' = roadmap
                    /\ UNCHANGED roadmapFiles
               ELSE /\ ret' = MarkDay(roadmap, day_number)
                    /\ roadmapFiles' = save_roadmap(roadmapFiles,
                                                    MarkDay(roadmap, day_number))
    /\ call' = [op |-> "update_progress", roadmap_id |-> roadmap_id,
                day_number |-> day_number]
    /\ UNCHANGED <<uploads, cache, llmCalls, progressFile, genCalls, workers>>

\* get_progress(session_id): the stored record, or the defaults
get_progress(file, session_id) ==
    LET progress == load_user_progress(file)
    IN IF session_id \in DOMAIN progress THEN progress[session_id]
       ELSE [xp |-> 0, unlocked_level |-> 1, history |-> <<>>]

\* get_mistakes(session_id) for one session: its mistakes, [] if it is unknown
session_mistakes(file, session_id) ==
    LET progress == load_user_progress(file)
    IN IF session_id \in DOMAIN progress THEN progress[session_id].mistakes
       ELSE <<>>

---------------------------------------------------------------------------
(* assessment_service: reading the mistakes *)

RECURSIVE SeqOf(_)
SeqOf(S) ==
    IF S = {} THEN <<>>
    ELSE LET x == CHOOSE y \in S : TRUE IN <<x>> \o SeqOf(S \ {x})

\* progress.items(): the sessions in the order of the file, which is the
\* order of their first submission.  The session that created the file is
\* the one whose first event has the timestamp "0"; with the two sessions of
\* the model this fixes the order.
KeyOrder(progress) ==
    IF DOMAIN progress = {} THEN <<>>
    ELSE LET first == CHOOSE s \in DOMAIN progress :
                          /\ Len(progress[s].history) > 0
                          /\ progress[s].history[1].timestamp = "0"
         IN <<first>> \o SeqOf(DOMAIN progress \ {first})

Annotated_requested(m, sid) ==
    [f \in DOMAIN m \cup {"session_id"} |->
        IF f = "session_id" THEN "all" ELSE m[f]]

\* m_with_sid = m.copy(); m_with_sid["session_id"] = sid
Annotated(m, sid) ==
    [f \in DOMAIN m \cup {"session_id"} |->
        IF f = "session_id" THEN sid ELSE m[f]]

\* the loop over progress.items()
RECURSIVE AllMistakes(_, _)
AllMistakes(progress, keys) ==
    IF keys = <<>> THEN <<>>
    ELSE LET sid == Head(keys)
         IN [i \in 1..Len(progress[sid].mistakes) |->
                Annotated(progress[sid].mistakes[i], sid)]
            \o AllMistakes(progress, Tail(keys))

\* the session ids a client asks the mistakes of
MistakeInputs == Sessions \cup {"all"}

\* get_mistakes(session_id)
get_mistakes(session_id) ==
    LET progress == load_user_progress(progressFile)
    IN /\ ret' = [mistakes |->
                    IF session_id = "all"
                    THEN AllMistakes(progress, KeyOrder(progress))
                    ELSE session_mistakes(progressFile, session_id)]
       /\ call' = [op |-> "get_mistakes", session_id |-> session_id]
       /\ UNCHANGED <<uploads, cache, llmCalls, progressFile, roadmapFiles,
                      genCalls, workers>>

---------------------------------------------------------------------------
(* Requests in flight: the services take no lock, so a request served next   *)
(* to another is a load step and, later, a save step.                       *)

\* the threads that serve requests, each one request
Workers == {"w1", "w2"}

Idle == [pc |-> "idle"]

IsLoaded(w, op) == workers[w].pc = "loaded" /\ workers[w].op = op

\* the timestamp a submission may read between its load and its save
TimestampsBetween(existed, file) ==
    {IF existed THEN "mtime" ELSE "0", Timestamp(file)}

\* submit_assessment_result up to progress = load_user_progress()
BeginSubmit(w, session_id, a) ==
    /\ workers[w] = Idle
    /\ workers' = [workers EXCEPT ![w] =
          [pc |-> "loaded", op |-> "submit_assessment_result",
           session_id |-> session_id, level |-> a.level, score |-> a.score,
           max_score |-> a.max_score, mistakes |-> a.mistakes,
           progress |-> load_user_progress(progressFile),
           existed |-> progressFile.exists]]
    /\ UNCHANGED <<uploads, cache, llmCalls, progressFile, roadmapFiles, genCalls,
                   call, ret>>

\* submit_assessment_result from the load to save_user_progress(progress)
EndSubmit(w) ==
    /\ IsLoaded(w, "submit_assessment_result")
    /\ LET r == workers[w]
       IN \E xp_gained \in XpGained(r.level, r.score),
             ts \in TimestampsBetween(r.existed, progressFile) :
            LET progress == SubmitProgress(r.progress, r.session_id, r.level,
                                           r.score, r.max_score, r.mistakes,
                                           xp_gained, ts)
            IN /\ progressFile' = save_user_progress(progressFile, progress)
               /\ workers' = [workers EXCEPT ![w] =
                     [pc |-> "done", op |-> r.op, session_id |-> r.session_id,
                      event |-> SubmissionEvent(r.level, r.score, r.max_score,
                                                xp_gained, ts),
                      ret |-> SubmitSummary(progress[r.session_id], r.level,
                                            r.score, xp_gained)]]
    /\ UNCHANGED <<uploads, cache, llmCalls, roadmapFiles, genCalls, call, ret>>

\* update_progress up to roadmap = get_roadmap(roadmap_id)
BeginUpdate(w, roadmap_id, day_number) ==
    /\ workers[w] = Idle
    /\ workers' = [workers EXCEPT ![w] =
          IF HasRoadmap(roadmapFiles, roadmap_id)
          THEN [pc |-> "loaded", op |-> "update_progress",
                roadmap_id |-> roadmap_id, day_number |-> day_number,
                roadmap |-> roadmapFiles[roadmap_id]]
          ELSE [pc |-> "done", op |-> "update_progress",
                roadmap_id |-> roadmap_id, day_number |-> day_number,
                ret |-> [none |-> TRUE]]]
    /\ UNCHANGED <<uploads, cache, llmCalls, progressFile, roadmapFiles, genCalls,
                   call, ret>>

\* update_progress from the load to save_roadmap(roadmap)
EndUpdate(w) ==
    /\ IsLoaded(w, "update_progress")
    /\ LET r == workers[w]
           marked == IF AlreadyCompleted(r.roadmap.completed_days, r.day_number)
                     THEN r.roadmap ELSE MarkDay(r.roadmap, r.day_number)
       IN /\ roadmapFiles' =
                IF AlreadyCompleted(r.roadmap.completed_days, r.day_number)
                THEN roadmapFiles ELSE save_roadmap(roadmapFiles, marked)
          /\ workers' = [workers EXCEPT ![w] =
                [pc |-> "done", op |-> r.op, roadmap_id |-> r.roadmap_id,
                 day_number |-> r.day_number, ret |-> marked]]
    /\ UNCHANGED <<uploads, cache, llmCalls, progressFile, genCalls, call, ret>>

\* generate_week_content up to the search for the target week
BeginWeek(w, roadmap_id, week_number) ==
    /\ workers[w] = Idle
    /\ workers' = [workers EXCEPT ![w] =
          IF ~HasRoadmap(roadmapFiles, roadmap_id)
          THEN [pc |-> "done", op |-> "generate_week_content",
                roadmap_id |-> roadmap_id, week_number |-> week_number,
                ret |-> [error |-> "Roadmap not found"]]
          ELSE IF FindWeek(roadmapFiles[roadmap_id].weeks, week_number) = 0
          THEN [pc |-> "done", op |-> "generate_week_content",
                roadmap_id |-> roadmap_id, week_number |-> week_number,
                ret |-> [error |-> "Week not found in roadmap outline",
                         week_number |-> week_number]]
          ELSE [pc |-> "loaded", op |-> "generate_week_content",
                roadmap_id |-> roadmap_id, week_number |-> week_number,
                roadmap |-> roadmapFiles[roadmap_id]]]
    /\ UNCHANGED <<uploads, cache, llmCalls, progressFile, roadmapFiles, genCalls,
                   call, ret>>

\* generate_week_content from the generation call to save_roadmap(roadmap)
EndWeek(w) ==
    /\ IsLoaded(w, "generate_week_content")
    /\ genCalls < MaxGenCalls
    /\ LET r == workers[w]
           t == FindWeek(r.roadmap.weeks, r.week_number)
       IN \E response \in generate_content_week :
            LET parsed == IF response.raised THEN [ok |-> FALSE, value |-> <<>>]
                          ELSE LoadDays(CleanWeekText(response.text))
                filled == [r.roadmap EXCEPT !.weeks[t].days =
                              FillDays(@, parsed.value)]
            IN /\ genCalls' = genCalls + 1
               /\ roadmapFiles' = IF parsed.ok THEN save_roadmap(roadmapFiles, filled)
                                  ELSE roadmapFiles
               /\ workers' = [workers EXCEPT ![w] =
                     [pc |-> "done", op |-> r.op, roadmap_id |-> r.roadmap_id,
                      week_number |-> r.week_number, saved |-> parsed.ok,
                      ret |-> IF parsed.ok
                              THEN [status |-> "success",
                                    week_number |-> r.week_number]
                              ELSE IF response.raised
                              THEN [error |-> "exception"]
                              ELSE [error |->
                                "Failed to parse AI response for week content"]]]
    /\ UNCHANGED <<uploads, cache, llmCalls, progressFile, call, ret>>

---------------------------------------------------------------------------
(* Specifications *)

Init ==
    /\ uploads = [s \in Sessions |-> NoDir]
    /\ cache = [k \in Sessions \X GenLevels |-> NoCache]
    /\ llmCalls = 0
    /\ progressFile = NoProgressFile
    /\ roadmapFiles = <<>>
    /\ genCalls = 0
    /\ workers = [w \in Workers |-> Idle]
    /\ call = [op |-> "none"]
    /\ ret = [none |-> TRUE]

\* the progress tracker, one request at a time
NextProgress ==
    \/ \E s \in Sessions, a \in Submissions :
            submit_assessment_result(s, a.level, a.score, a.max_score, a.mistakes)
    \/ \E s \in Sessions, q \in Questions, c \in Comments :
            update_mistake_comment(s, q, c)
    \/ \E s \in MistakeInputs : get_mistakes(s)

SpecProgress == Init /\ [][NextProgress]_vars

\* uploads and assessment requests, one request at a time
NextAssessment ==
    \/ \E s \in Sessions, files \in SUBSET FileInputs : upload_files(files, s)
    \/ \E s \in Sessions, l \in GenLevels : generate_assessment(s, l)

SpecAssessment == Init /\ [][NextAssessment]_vars

\* the roadmap ids a client names: those of the roadmaps, and one of none
RoadmapIdInputs == 0..MaxRoadmaps

WeekInputs == {1, 2, 3}

\* the day numbers a client marks as completed
DayInputs == {1, 2}

\* the roadmap store, one request at a time
NextRoadmap ==
    \/ generate_roadmap("goal", "s1")
    \/ \E r \in RoadmapIdInputs, w \in WeekInputs : generate_week_content(r, w)
    \/ \E r \in RoadmapIdInputs, d \in DayInputs : update_progress(r, d)

SpecRoadmap == Init /\ [][NextRoadmap]_vars

\* the three generating handlers of one session, one request at a time
NextGeneration ==
    \/ \E files \in SUBSET FileInputs : upload_files(files, "s1")
    \/ \E l \in GenLevels : generate_assessment("s1", l)
    \/ generate_roadmap("goal", "s1")
    \/ \E r \in RoadmapIdInputs, w \in WeekInputs : generate_week_content(r, w)

SpecGeneration == Init /\ [][NextGeneration]_vars

\* the submissions two requests make next to each other
ConcurrentSubmissions ==
    { a \in Submissions : a.level = 1 \/ (a.level = 2 /\ a.score = 7) }

\* requests served next to each other: each thread serves one
NextConcurrent ==
    \/ generate_roadmap("goal", "s1")
    \/ \E w \in Workers, s \in Sessions, a \in ConcurrentSubmissions :
            BeginSubmit(w, s, a)
    \/ \E w \in Workers : EndSubmit(w)
    \/ \E w \in Workers, r \in RoadmapIdInputs, d \in DayInputs : BeginUpdate(w, r, d)
    \/ \E w \in Workers : EndUpdate(w)
    \/ \E w \in Workers, r \in RoadmapIdInputs, k \in WeekInputs : BeginWeek(w, r, k)
    \/ \E w \in Workers : EndWeek(w)

SpecConcurrent == Init /\ [][NextConcurrent]_vars

---------------------------------------------------------------------------
(* The progress tracker's properties *)

IsSubmit(c) == c.op = "submit_assessment_result"

Max(a, b) == IF a >= b THEN a ELSE b

UnlockedInRange ==
    \A s \in Sessions : get_progress(progressFile, s).unlocked_level \in {1, 2, 3}

UnlockedNeverDecreases ==
    \A s \in Sessions :
        get_progress(progressFile', s).unlocked_level
            >= get_progress(progressFile, s).unlocked_level

\* C3: a session's unlocked_level never decreases, whatever is submitted, and
\* it is always 1, 2 or 3.
C3_UnlockedMonotone == [](UnlockedInRange) /\ [][UnlockedNeverDecreases]_vars

\* C3's case: a session that had unlocked level 3 passes level 1 again
C3_Witness ==
    /\ IsSubmit(call) /\ call.level = 1 /\ ret.passed
    /\ ret.unlocked_level = 3

XpAccumulates ==
    /\ \A s \in Sessions :
          /\ get_progress(progressFile, s).xp >= 0
          /\ get_progress(progressFile', s).xp >= get_progress(progressFile, s).xp
    /\ IsSubmit(call') =>
          /\ ret'.new_total_xp
                = get_progress(progressFile, call'.session_id).xp + ret'.xp_gained
          /\ get_progress(progressFile', call'.session_id).xp = ret'.new_total_xp
          /\ ~ret'.passed => ret'.xp_gained = 0

\* C4: after every submission, new_total_xp and the stored xp are the xp before
\* the call plus xp_gained, xp_gained is 0 when the submission failed, and xp
\* is never negative and never decreases.
C4_XpAccumulation == [][XpAccumulates]_vars

\* C4's case: a passed submission adds to xp the session already had
C4_Witness ==
    /\ IsSubmit(call) /\ ret.passed
    /\ ret.new_total_xp > ret.xp_gained

PassPolicy ==
    IsSubmit(call') =>
        LET level == call'.level
            score == call'.score
            before == get_progress(progressFile, call'.session_id)
            after == get_progress(progressFile', call'.session_id)
        IN /\ level = 1 =>
                /\ ret'.passed <=> score >= 8
                /\ ret'.passed =>
                      /\ ret'.xp_gained \in 50..100
                      /\ after.unlocked_level = Max(before.unlocked_level, 2)
           /\ level = 2 =>
                /\ ret'.passed <=> score >= 7
                /\ ret'.passed =>
                      /\ ret'.xp_gained \in 100..150
                      /\ after.unlocked_level = Max(before.unlocked_level, 3)
           /\ level = 3 =>
                /\ ret'.passed <=> score > 0
                /\ ret'.passed =>
                      /\ ret'.xp_gained \in 150..200
                      /\ after.unlocked_level = before.unlocked_level
           /\ ~ret'.passed =>
                /\ ret'.xp_gained = 0
                /\ after.xp = before.xp
                /\ after.unlocked_level = before.unlocked_level
           /\ ret'.unlocked_level = after.unlocked_level

\* C5: a submission is judged by the policy of its own level: level 1 passes
\* iff score >= 8 (xp in 50..100, unlocked_level becomes max(current, 2)),
\* level 2 iff score >= 7 (xp in 100..150, max(current, 3)), level 3 iff
\* score > 0 (xp in 150..200, no unlock); a failed submission gains 0 and
\* leaves xp and unlocked_level as they were.
C5_PassPolicy == [][PassPolicy]_vars

\* C5's case: a session with xp and level 2 unlocked fails level 2 with score 6
C5_Witness ==
    /\ IsSubmit(call) /\ call.level = 2 /\ call.score = 6 /\ ~ret.passed
    /\ ret.new_total_xp > 0 /\ ret.unlocked_level = 2

UniqueQuestions ==
    \A s \in Sessions :
        LET stored == session_mistakes(progressFile, s)
        IN \A i, j \in 1..Len(stored) :
              stored[i].question = stored[j].question => i = j

FirstMistakeKept ==
    IsSubmit(call') =>
        \A s \in Sessions :
            LET old == session_mistakes(progressFile, s)
                new == session_mistakes(progressFile', s)
            IN /\ Len(new) >= Len(old)
               /\ \A i \in 1..Len(old) : new[i] = old[i]

\* C6: no two stored mistakes of a session have the same question text; a
\* submitted mistake whose question is already stored is dropped and the
\* entry stored first stays as it was.
C6_MistakesUnique == [](UniqueQuestions) /\ [][FirstMistakeKept]_vars

\* C6's case: q1 was stored with answer "a"; a later list that brings q1 with
\* answer "b" and a new q2 adds q2 only
C6_Witness ==
    /\ IsSubmit(call) /\ ~call.mistakes.is_none
    /\ \E k \in 1..Len(call.mistakes.list) :
          call.mistakes.list[k] = Mistake("q1", "b")
    /\ LET stored == session_mistakes(progressFile, call.session_id)
       IN /\ Len(stored) = 2
          /\ stored[1].question = "q1" /\ stored[1].user_answer = "a"
          /\ stored[2].question = "q2"

---------------------------------------------------------------------------
(* The assessment cache's properties *)

IsGenerate(c) == c.op = "generate_assessment"

CacheKey(c) == <<c.session_id, c.level>>

GenerationFailed == [error |-> "Failed to generate assessment."]

CachedForGood ==
    /\ \A k \in DOMAIN cache : cache[k].exists => cache'[k] = cache[k]
    /\ IsGenerate(call') /\ cache[CacheKey(call')].exists =>
          /\ ret' = cache[CacheKey(call')].content
          /\ ~call'.llm.called
          /\ llmCalls' = llmCalls

\* C1: once generate_assessment has written the cache entry of a (session,
\* level), every later call for that pair returns the cached content, makes
\* no call to the model and leaves the entry as it is, whatever uploads and
\* other generations happen in between.
C1_CachedForGood == [][CachedForGood]_vars

\* C1's case: a request served from the cache after another pair was generated
C1_Witness ==
    /\ IsGenerate(call) /\ ~call.llm.called
    /\ cache[CacheKey(call)].exists
    /\ ret = cache[CacheKey(call)].content
    /\ \E k \in DOMAIN cache :
          /\ k # CacheKey(call) /\ cache[k].exists
          /\ cache[k].content.questions # ret.questions

\* the replies json.loads rejects after the fence is cut off
UnparseableReplies == {UnclosedReply, ProseReply}

FailedGeneration(c) ==
    /\ IsGenerate(c) /\ c.llm.called
    /\ c.llm.raised \/ c.llm.text \in UnparseableReplies

NothingCachedOnFailure ==
    /\ FailedGeneration(call') =>
          /\ ret' = GenerationFailed
          /\ ~cache'[CacheKey(call')].exists
          /\ cache' = cache
    /\ FailedGeneration(call) /\ IsGenerate(call') /\ CacheKey(call') = CacheKey(call) =>
          /\ call'.llm.called
          /\ llmCalls' = llmCalls + 1

\* C2: when the model call raises or its output cannot be parsed,
\* generate_assessment returns the structured failure and there is no cache
\* entry for the pair afterwards, so the next call for the pair calls the
\* model again.
C2_NothingCachedOnFailure == [][NothingCachedOnFailure]_vars

\* C2's case: a second attempt for a pair fails on an unparseable reply
C2_Witness ==
    /\ FailedGeneration(call) /\ ~call.llm.raised
    /\ ret = GenerationFailed
    /\ llmCalls = 2
    /\ \A k \in DOMAIN cache : ~cache[k].exists

---------------------------------------------------------------------------
(* The roadmap store's properties *)

IsUpdate(c) == c.op = "update_progress"

IsWeekContent(c) == c.op = "generate_week_content"

\* 100 * days_completed / total_days, as Python evaluates it
HundredTimesOver(days_completed, total_days) ==
    FloatNum(TrueDiv(100 * days_completed, total_days))

\* (days_completed / total_days) * 100, as Python evaluates it
RatioTimesHundred(days_completed, total_days) ==
    FloatNum(TimesInt(TrueDiv(days_completed, total_days), 100))

\* the roadmap an update_progress request named is stored
UpdatedExisting == IsUpdate(call) /\ HasRoadmap(roadmapFiles, call.roadmap_id)

\* C7, as the claim states it: after update_progress on an existing roadmap
\* the stored days_completed is the length of completed_days and the stored
\* progress_percentage is the number 100 * days_completed / total_days.
C7_ExactPercentage ==
    UpdatedExisting =>
        LET roadmap == roadmapFiles[call.roadmap_id]
        IN /\ roadmap.days_completed = Len(roadmap.completed_days.days)
           /\ roadmap.progress_percentage =
                 HundredTimesOver(roadmap.days_completed, roadmap.total_days)

\* C7, amended: after update_progress on an existing roadmap the stored
\* days_completed is the length of completed_days, and the stored
\* progress_percentage is the double (days_completed / total_days) * 100,
\* the quotient rounded first and the product rounded after it.
C7_RoundedPercentage ==
    UpdatedExisting =>
        LET roadmap == roadmapFiles[call.roadmap_id]
        IN /\ roadmap.completed_days.present
           /\ roadmap.days_completed = Len(roadmap.completed_days.days)
           /\ roadmap.progress_percentage =
                 RatioTimesHundred(roadmap.days_completed, roadmap.total_days)

\* C7's case: the first day of a three-day course is marked, and the stored
\* percentage is not the double nearest to 100/3
C7_Witness ==
    /\ UpdatedExisting
    /\ LET roadmap == roadmapFiles[call.roadmap_id]
       IN /\ roadmap.total_days = 3
          /\ roadmap.completed_days.days = <<call.day_number>>
          /\ roadmap.days_completed = 1
          /\ roadmap.progress_percentage = RatioTimesHundred(1, 3)
          /\ roadmap.progress_percentage # HundredTimesOver(1, 3)

\* after update_progress the day is among the completed days, once
DayMarkedOnce ==
    UpdatedExisting =>
        LET days == roadmapFiles[call.roadmap_id].completed_days.days
        IN /\ InList(days, call.day_number)
           /\ \A i, j \in 1..Len(days) : days[i] = days[j] => i = j

\* a request for a completed day, or for a roadmap that is not stored,
\* writes nothing
UpdateIsNoOp ==
    IsUpdate(call') =>
        IF HasRoadmap(roadmapFiles, call'.roadmap_id)
        THEN InList(roadmapFiles[call'.roadmap_id].completed_days.days,
                    call'.day_number) =>
                /\ roadmapFiles' = roadmapFiles
                /\ ret' = roadmapFiles[call'.roadmap_id]
        ELSE /\ roadmapFiles' = roadmapFiles
             /\ ret' = [none |-> TRUE]

\* C8: update_progress for a day that is already in completed_days leaves the
\* stored roadmaps as they are and returns the roadmap; after any
\* update_progress the day is in completed_days exactly once, so a second
\* call with the same day stores what the first stored; for an id with no
\* roadmap it returns null and no file is written.
C8_UpdateIdempotent == []DayMarkedOnce /\ [][UpdateIsNoOp]_vars

\* C8's case: day 1 is marked again after day 2 was marked
C8_Witness ==
    /\ UpdatedExisting
    /\ call.day_number = 1
    /\ roadmapFiles[call.roadmap_id].completed_days.days = <<1, 2>>
    /\ roadmapFiles[call.roadmap_id].days_completed = 2
    /\ ret = roadmapFiles[call.roadmap_id]

NotFoundErrors ==
    { [error |-> "Roadmap not found"] } \cup
    { [error |-> "Week not found in roadmap outline", week_number |-> w] :
        w \in WeekInputs }

\* no week of the stored roadmap has the number
WeekAbsent(roadmap_id, week_number) ==
    \A i \in 1..Len(roadmapFiles[roadmap_id].weeks) :
        roadmapFiles[roadmap_id].weeks[i].week_number # week_number

NotFoundIsFrame ==
    /\ IsWeekContent(call')
    /\ \/ ~HasRoadmap(roadmapFiles, call'.roadmap_id)
       \/ WeekAbsent(call'.roadmap_id, call'.week_number)
    => /\ ret' \in NotFoundErrors
       /\ ~call'.llm.called
       /\ genCalls' = genCalls
       /\ roadmapFiles' = roadmapFiles

\* C9: generate_week_content for an id with no roadmap, or for a week number
\* none of the roadmap's weeks has, returns a not-found error, makes no
\* generation call and leaves every stored roadmap as it is.
C9_NotFoundIsFrame == [][NotFoundIsFrame]_vars

\* C9's case: week 3 is asked of a stored roadmap with progress, which has
\* no such week
C9_Witness ==
    /\ IsWeekContent(call)
    /\ HasRoadmap(roadmapFiles, call.roadmap_id)
    /\ WeekAbsent(call.roadmap_id, call.week_number)
    /\ roadmapFiles[call.roadmap_id].days_completed > 0
    /\ ~call.llm.called
    /\ ret = [error |-> "Week not found in roadmap outline",
              week_number |-> call.week_number]

---------------------------------------------------------------------------
(* Properties of requests served next to each other *)

\* the thread's request is answered in this step
Finishes(w, op) == IsLoaded(w, op) /\ workers'[w].pc = "done"

\* the record of a session in a loaded mapping
LoadedRecord(progress, session_id) ==
    IF session_id \in DOMAIN progress THEN progress[session_id] ELSE NewRecord

\* a submission's save stores what the request loaded plus its own event:
\* the sessions it did not load are not in the file afterwards, and the
\* events stored for its session since its load are not either
SubmitWritesItsLoad ==
    \A w \in Workers :
        Finishes(w, "submit_assessment_result") =>
            LET r == workers[w]
                rec == LoadedRecord(r.progress, r.session_id)
            IN /\ progressFile'.exists
               /\ DOMAIN progressFile'.data = DOMAIN r.progress \cup {r.session_id}
               /\ \A s \in DOMAIN r.progress \ {r.session_id} :
                     progressFile'.data[s] = r.progress[s]
               /\ progressFile'.data[r.session_id].history =
                     Append(rec.history, workers'[w].event)
               /\ progressFile'.data[r.session_id].xp =
                     rec.xp + workers'[w].event.xp_gained

\* update_progress for a day its load does not hold stores the roadmap it
\* loaded with the day appended
UpdateWritesItsLoad ==
    \A w \in Workers :
        Finishes(w, "update_progress") =>
            LET r == workers[w]
            IN IF InList(r.roadmap.completed_days.days, r.day_number)
               THEN roadmapFiles' = roadmapFiles
               ELSE /\ roadmapFiles'[r.roadmap_id].completed_days.days =
                          Append(r.roadmap.completed_days.days, r.day_number)
                    /\ roadmapFiles'[r.roadmap_id].weeks = r.roadmap.weeks

\* generate_week_content that saves stores the progress it loaded
WeekWritesItsLoad ==
    \A w \in Workers :
        Finishes(w, "generate_week_content") =>
            LET r == workers[w]
            IN IF workers'[w].saved
               THEN /\ roadmapFiles'[r.roadmap_id].completed_days =
                          r.roadmap.completed_days
                    /\ roadmapFiles'[r.roadmap_id].days_completed =
                          r.roadmap.days_completed
               ELSE roadmapFiles' = roadmapFiles

LastWriteWins == SubmitWritesItsLoad /\ UpdateWritesItsLoad /\ WeekWritesItsLoad

\* C10: a save rewrites the whole file from what its request loaded, with no
\* lock and no look at what the file holds by then: after the save of
\* submit_assessment_result the progress file is the loaded mapping with the
\* request's event, and after the save of update_progress or
\* generate_week_content the roadmap file is the loaded roadmap with the
\* request's change, so what another request stored in between is lost.
C10_LastWriteWins == [][LastWriteWins]_vars

\* C10's case: two submissions of one session were answered, both passed, and
\* the file holds one event and the XP of one of them
C10_Witness ==
    /\ \A w \in Workers :
          /\ workers[w].pc = "done"
          /\ workers[w].op = "submit_assessment_result"
          /\ workers[w].session_id = "s1"
          /\ workers[w].event.passed
    /\ workers["w1"].event.xp_gained # workers["w2"].event.xp_gained
    /\ Len(progressFile.data["s1"].history) = 1
    /\ progressFile.data["s1"].history[1] = workers["w2"].event
    /\ progressFile.data["s1"].xp = workers["w2"].event.xp_gained

---------------------------------------------------------------------------
(* The progress store's properties *)

\* the stored history of a session, [] for a session with no record
History(file, session_id) == get_progress(file, session_id).history

\* no step removes, reorders or changes a stored event
HistoryKept ==
    \A s \in Sessions :
        /\ Len(History(progressFile', s)) >= Len(History(progressFile, s))
        /\ \A i \in 1..Len(History(progressFile, s)) :
              History(progressFile', s)[i] = History(progressFile, s)[i]

\* a submission adds one event, the last of its session's history, which
\* carries the arguments and the outcome returned
OneEventAppended ==
    IsSubmit(call') =>
        LET old == History(progressFile, call'.session_id)
            new == History(progressFile', call'.session_id)
        IN /\ Len(new) = Len(old) + 1
           /\ new[Len(new)].level = call'.level
           /\ new[Len(new)].score = call'.score
           /\ new[Len(new)].max_score = call'.max_score
           /\ new[Len(new)].passed = ret'.passed
           /\ new[Len(new)].xp_gained = ret'.xp_gained
           /\ \A s \in Sessions \ {call'.session_id} :
                 History(progressFile', s) = History(progressFile, s)

\* C11: every submit_assessment_result call, passed or failed, appends exactly
\* one event with the submitted level, score and max_score and the computed
\* passed and xp_gained to the end of the session's history, and no step
\* removes, reorders or modifies an event already stored.
C11_HistoryAppendOnly == [][HistoryKept /\ OneEventAppended]_vars

\* C11's case: a failed submission is recorded after a passed one
C11_Witness ==
    /\ IsSubmit(call) /\ ~ret.passed
    /\ LET h == History(progressFile, call.session_id)
       IN /\ Len(h) = 2
          /\ h[1].passed /\ h[1].xp_gained > 0
          /\ ~h[2].passed /\ h[2].xp_gained = 0
          /\ h[2].score = call.score

---------------------------------------------------------------------------
(* Generation without documents, and failed generations *)

NoDocuments == [error |-> "No documents found for this session."]

\* no file of the session's folder is a PDF that partition_pdf gets text from
NothingExtractable(dir) ==
    ~dir.exists \/ \A f \in dir.files :
                      \/ Lower(f.ext) # ".pdf"
                      \/ partition_pdf(f).raised
                      \/ partition_pdf(f).len = 0

NoDocumentsIsFrame ==
    /\ IsGenerate(call')
    /\ ~cache[CacheKey(call')].exists
    /\ NothingExtractable(uploads[call'.session_id])
    => /\ ret' = NoDocuments
       /\ ~call'.llm.called
       /\ llmCalls' = llmCalls
       /\ cache' = cache

\* C12: generate_assessment for a session none of whose uploads gives text,
\* and with no cache entry for the level, returns the "No documents found"
\* error, makes no call to the model and writes no cache entry.
C12_NoDocumentsIsFrame == [][NoDocumentsIsFrame]_vars

\* C12's case: the session's folder exists and holds a PDF that cannot be read
C12_Witness ==
    /\ IsGenerate(call) /\ ret = NoDocuments /\ ~call.llm.called
    /\ uploads[call.session_id].exists
    /\ uploads[call.session_id].files = {File("scan", ".PDF")}
    /\ ~cache[CacheKey(call)].exists

IsRoadmapGen(c) == c.op = "generate_roadmap"

\* the request called the model, and the call raised or its reply is not the
\* JSON the handler asks for
GenerationFails(c) ==
    /\ IsGenerate(c) \/ IsRoadmapGen(c) \/ IsWeekContent(c)
    /\ c.llm.called
    /\ \/ c.llm.raised
       \/ IsGenerate(c) /\ c.llm.text \in UnparseableReplies
       \/ ~IsGenerate(c) /\ c.llm.text = ProseReply

\* a value {error: ...}
IsError(r) == DOMAIN r = {"error"}

FailureIsStructured ==
    GenerationFails(call') =>
        /\ IsError(ret')
        /\ cache' = cache
        /\ roadmapFiles' = roadmapFiles

\* C13: when the model call raises or its output cannot be parsed,
\* generate_assessment, generate_roadmap and generate_week_content each
\* return a value {error: ...}, and no cache entry is written, no roadmap
\* file is created and no roadmap file is changed.
C13_FailureIsStructured == [][FailureIsStructured]_vars

\* C13's case: with an assessment cached and a roadmap stored, the week
\* generation gets prose for an answer
C13_Witness ==
    /\ IsWeekContent(call) /\ call.llm.called /\ ~call.llm.raised
    /\ call.llm.text = ProseReply
    /\ HasRoadmap(roadmapFiles, call.roadmap_id)
    /\ IsError(ret)
    /\ \E k \in DOMAIN cache : cache[k].exists

---------------------------------------------------------------------------
(* Properties of the mistakes *)

IsGetMistakes(c) == c.op = "get_mistakes"

\* the mistakes stored for a session, [] for a session with no record
Stored(file, session_id) ==
    IF file.exists /\ session_id \in DOMAIN file.data
    THEN file.data[session_id].mistakes ELSE <<>>

RECURSIVE CountStored(_, _)
CountStored(file, S) ==
    IF S = {} THEN 0
    ELSE LET s == CHOOSE x \in S : TRUE
         IN Len(Stored(file, s)) + CountStored(file, S \ {s})

\* the entry is the stored mistake with the session's id added
IsAnnotated(entry, m, session_id) ==
    /\ DOMAIN entry = DOMAIN m \cup {"session_id"}
    /\ entry.session_id = session_id
    /\ \A f \in DOMAIN m : entry[f] = m[f]

MistakesReturned ==
    IsGetMistakes(call') =>
        /\ progressFile' = progressFile
        /\ IF call'.session_id = "all"
           THEN /\ Len(ret'.mistakes) = CountStored(progressFile, Sessions)
                /\ \A s \in Sessions : \A i \in 1..Len(Stored(progressFile, s)) :
                      \E k \in 1..Len(ret'.mistakes) :
                          IsAnnotated(ret'.mistakes[k], Stored(progressFile, s)[i], s)
           ELSE ret'.mistakes = Stored(progressFile, call'.session_id)

\* C14: get_mistakes("all") returns every stored mistake of every session,
\* each with the id of the session it is stored under, and nothing else;
\* for another session id it returns that session's mistakes, the empty
\* sequence for a session with no record; the stored mistakes stay as they
\* are.
C14_MistakesReturned == [][MistakesReturned]_vars

\* C14's case: two sessions with one mistake each give two entries, one per
\* session
C14_Witness ==
    /\ IsGetMistakes(call) /\ call.session_id = "all"
    /\ \A s \in Sessions : Len(Stored(progressFile, s)) = 1
    /\ Len(ret.mistakes) = 2
    /\ ret.mistakes[1].session_id # ret.mistakes[2].session_id
    /\ "session_id" \notin DOMAIN Stored(progressFile, "s1")[1]

IsComment(c) == c.op = "update_mistake_comment"

\* the sessions with a record, and their records but for the mistakes
Records(file) == IF file.exists THEN DOMAIN file.data ELSE {}

Rest(rec) == [xp |-> rec.xp, unlocked_level |-> rec.unlocked_level,
              history |-> rec.history]

CommentIsFrame ==
    IsComment(call') =>
        LET s == call'.session_id
            before == Stored(progressFile, s)
            after == Stored(progressFile', s)
            found == \E i \in 1..Len(before) :
                        before[i].question = call'.question_text
        IN /\ ret'.found = found
           /\ ~found => progressFile' = progressFile
           /\ found =>
                /\ Len(after) = Len(before)
                /\ \A i \in 1..Len(before) :
                      after[i] = IF before[i].question = call'.question_text
                                 THEN [before[i] EXCEPT !.comments = call'.comment]
                                 ELSE before[i]
                /\ Records(progressFile') = Records(progressFile)
                /\ Rest(progressFile'.data[s]) = Rest(progressFile.data[s])
                /\ \A o \in Records(progressFile) \ {s} :
                      progressFile'.data[o] = progressFile.data[o]

\* C15: update_mistake_comment returns true exactly when the session has a
\* stored mistake with the question text, and then only the comments of that
\* mistake change; otherwise it returns false and the progress file stays as
\* it is.  The other mistakes, the session's xp, unlocked_level and history,
\* and the other sessions are unchanged in both cases.
C15_CommentIsFrame == [][CommentIsFrame]_vars

\* C15's case: the second of two stored mistakes gets the comment
C15_Witness ==
    /\ IsComment(call) /\ ret.found
    /\ LET stored == Stored(progressFile, call.session_id)
       IN /\ Len(stored) = 2
          /\ stored[2].question = call.question_text
          /\ stored[2].comments = call.comment
          /\ stored[1].comments = ""
          /\ call.comment # ""

RECURSIVE SumXpGained(_)
SumXpGained(history) ==
    IF history = <<>> THEN 0
    ELSE Head(history).xp_gained + SumXpGained(Tail(history))

\* a session's xp is what its events gained
XpIsSumOfHistory ==
    \A s \in Records(progressFile) :
        progressFile.data[s].xp = SumXpGained(progressFile.data[s].history)

\* a submission keeps the records of the other sessions
OtherSessionsKept ==
    IsSubmit(call') =>
        /\ Records(progressFile') = Records(progressFile) \cup {call'.session_id}
        /\ \A o \in Records(progressFile) \ {call'.session_id} :
              progressFile'.data[o] = progressFile.data[o]

\* C16: with requests served one at a time, submit_assessment_result for a
\* session leaves the record of every other session (xp, unlocked_level,
\* history, mistakes) as it was, although the file is rewritten whole; and
\* in every state a session's xp is the sum of xp_gained over its history.
C16_SessionsIsolated == []XpIsSumOfHistory /\ [][OtherSessionsKept]_vars

\* C16's case: a session passes after another session gained XP and stored a
\* mistake
C16_Witness ==
    /\ IsSubmit(call) /\ ret.passed /\ ret.xp_gained > 0
    /\ \E o \in Records(progressFile) \ {call.session_id} :
          /\ progressFile.data[o].xp > 0
          /\ Len(progressFile.data[o].history) = 1
          /\ Len(progressFile.data[o].mistakes) > 0

===========================================================================
